---- MODULE Spec2Model ----
(***************************************************************************)
(* Clavum server: the approval state machine (services/approval.ts and    *)
(* routes/approvals.ts), the request-auth and replay-protection pipeline  *)
(* (middleware/auth.ts, middleware/phone-auth.ts, services/nonce.ts) and  *)
(* the retrieval coordinator (routes/secrets.ts).                         *)
(*                                                                         *)
(* Every await in the TypeScript source is a suspension point: a handler  *)
(* is modelled as a sequence of atomic steps, one per database operation  *)
(* or synchronous continuation, and steps of different requests           *)
(* interleave freely.  Date.now() / new Date() read the variable now.    *)
(***************************************************************************)
EXTENDS Integers, Sequences, FiniteSets, TLC

(***************************************************************************)
(* Bounds of the model.                                                    *)
(***************************************************************************)
MaxApprovals == 1       \* approval_requests rows ever created
MaxNow == 1             \* last clock value (ms) of the approval machine
ShortTimeout == 0       \* explicit timeoutMs passed to createApproval

(***************************************************************************)
(* Program constants.                                                      *)
(***************************************************************************)
DEFAULT_TIMEOUT_MS == 300000

(***************************************************************************)
(* The provisioned world: tenants, their phones and agents, secret ids.   *)
(***************************************************************************)
Tenants == {"T1", "T2"}
Phones == {"ph1", "ph2"}
PhoneTenant(ph) == IF ph = "ph1" THEN "T1" ELSE "T2"
SecretIds == {"sec-1"}
Reasons == {"deploy"}
Procs == {"p1", "p2"}

\* Optional values (a nullable column, an optional parameter).
Null == <<>>
Some(x) == <<x>>

VARIABLES
    now,        \* the wall clock read by Date.now() / new Date()
    approvals,  \* table approval_requests: sequence of rows, id = index
    calls,      \* the in-flight approval-service calls, one per process
    reqs,       \* requests inside the auth middleware, one per process
    usedNonces, \* table used_nonces: set of rows, nonce unique
    callCount,  \* services/nonce.ts: calls of storeNonce since the last cleanup
    cleanups,   \* cleanExpired() calls in flight: their deletion thresholds
    secrets,    \* table secret_metadata: set of rows, id unique
    auditLog,   \* table audit_log: sequence of entries
    hreqs,      \* requests inside a secrets route handler, one per process
    invitations,\* table pairing_invitations: sequence of rows, token = index
    devices,    \* tables agents and phones: the rows created by pairing
    preqs       \* requests inside a pairing route handler, one per process

apprVars == <<approvals, calls>>
authVars == <<reqs, usedNonces, callCount, cleanups>>
retrVars == <<secrets, auditLog, hreqs>>
pairVars == <<invitations, devices, preqs>>
vars == <<now, approvals, calls, reqs, usedNonces, callCount, cleanups,
          secrets, auditLog, hreqs, invitations, devices, preqs>>

(***************************************************************************)
(* Ed25519, idealised: a signature is the pair of signing key and message *)
(* and verifies only under that key over that message.  A key pair is     *)
(* named by its owner.                                                     *)
(***************************************************************************)
Sign(key, msg) == [key |-> key, msg |-> msg]
Verify(pub, msg, sig) == sig.key = pub /\ sig.msg = msg

\* kdf.hash: SHA-256, idealised as an injective tag.
Hash(x) == [sha256 |-> x]

\* signatures.buildChallenge: nonce(32) || secretId || SHA256(reason).
buildChallenge(secretId, reason, nonce) == <<nonce, secretId, Hash(reason)>>

\* signatures.verifyApproval.
verifyApprovalKeyOnly(publicKey, challenge, signature) == signature.key = publicKey
verifyApproval(publicKey, challenge, signature) == Verify(publicKey, challenge, signature)

\* The Ed25519 public key registered for a phone.
PhonePub(ph) == ph

(***************************************************************************)
(* Approval rows.                                                          *)
(***************************************************************************)
NoApproval ==
    [id |-> 0, phoneId |-> "", secretId |-> "", reason |-> "",
     challenge |-> <<>>, status |-> "absent", approvalSig |-> Null,
     createdAt |-> 0, respondedAt |-> Null, expiresAt |-> 0]

\* prisma.approvalRequest.findUnique({ where: { id } })
findUnique(id) == IF id \in DOMAIN approvals THEN approvals[id] ELSE NoApproval

\* The lazy-expiry test of approveRequest and getStatus: expiresAt <= new Date().
IsPastDeadlineStrict(expiresAt, t) == expiresAt < t
IsPastDeadline(expiresAt, t) == expiresAt <= t

\* The where-clause of the bulk expiry: expiresAt: { lt: new Date() }.
IsStale(expiresAt, t) == expiresAt < t

\* data of the three status updates.
ExpiredDataNoStamp(row, t) == [row EXCEPT !.status = "expired"]
ExpiredData(row, t) == [row EXCEPT !.status = "expired", !.respondedAt = Some(t)]
ApprovedData(row, sig, t) ==
    [row EXCEPT !.status = "approved", !.approvalSig = Some(sig), !.respondedAt = Some(t)]
DeniedDataMovesDeadline(row, t) ==
    [row EXCEPT !.status = "denied", !.respondedAt = Some(t), !.expiresAt = t]
DeniedData(row, t) == [row EXCEPT !.status = "denied", !.respondedAt = Some(t)]

\* prisma.approvalRequest.update({ where: { id }, data }): the row is
\* selected by id alone, whatever its current status.
UpdateById(id, row) == [approvals EXCEPT ![id] = row]

\* routes/approvals.ts: the status code of the approve and reject routes
\* for the outcome of the service call.
approveHttp(code) ==
    CASE code = "ok" -> 200
      [] code = "approval_not_found" -> 404
      [] code = "already_resolved" -> 409
      [] code = "expired" -> 410
      [] code = "invalid_signature" -> 400
      [] OTHER -> 500

\* A request that has not arrived at the auth middleware.
IdleReq ==
    [pipe |-> "", pc |-> "idle", ident |-> "", sig |-> Null, exp |-> 0,
     status |-> 0, cause |-> ""]

\* A secret_metadata row that does not exist (findUnique returning null).
NoSecret == [id |-> "", tenantId |-> "", agentId |-> "", name |-> "", tier |-> ""]

\* A request that has not reached a pairing route handler.
IdlePair ==
    [kind |-> "", pc |-> "idle", token |-> 0, tenant |-> "", body |-> "",
     status |-> 0, error |-> ""]

\* A request that has not reached a secrets route handler.
IdleHandler ==
    [op |-> "none", pc |-> "idle", agent |-> "", secretId |-> "", name |-> "",
     tier |-> "", body |-> "", seen |-> NoSecret, status |-> 0, keys |-> FALSE,
     live |-> {}]

(***************************************************************************)
(* Service calls.                                                          *)
(***************************************************************************)
IdleCall ==
    [op |-> "none", pc |-> "idle", id |-> 0, sig |-> Null, phone |-> "",
     tenant |-> "", snap |-> NoApproval, at |-> 0, code |-> "", wrote |-> FALSE,
     out |-> <<>>]

\* Signatures a client can present: any phone's key over any stored
\* challenge, and a signature over something that is no challenge.
Challenges == {approvals[i].challenge : i \in DOMAIN approvals}
Signatures == {Sign(k, ch) : k \in Phones, ch \in Challenges} \cup {Sign("ph1", <<>>)}

Init ==
    /\ now = 0
    /\ approvals = <<>>
    /\ calls = [p \in Procs |-> IdleCall]
    /\ reqs = [p \in Procs |-> IdleReq]
    /\ usedNonces = {}
    /\ callCount = 0
    /\ cleanups = {}
    /\ secrets = {}
    /\ auditLog = <<>>
    /\ hreqs = [p \in Procs |-> IdleHandler]
    /\ invitations = <<>>
    /\ devices = <<>>
    /\ preqs = [p \in Procs |-> IdlePair]

\* Time passes.
Tick ==
    /\ now < MaxNow
    /\ now' = now + 1
    /\ UNCHANGED <<approvals, calls, authVars, retrVars, pairVars>>

\* createApproval(params): one insert.
TimeoutOfZeroIsDefault(timeoutMs) ==
    IF timeoutMs = Null \/ timeoutMs[1] = 0 THEN DEFAULT_TIMEOUT_MS ELSE timeoutMs[1]
TimeoutOf(timeoutMs) == IF timeoutMs = Null THEN DEFAULT_TIMEOUT_MS ELSE timeoutMs[1]

NewApproval(id, secretId, phoneId, reason, timeoutMs, t) ==
    [id |-> id, phoneId |-> phoneId, secretId |-> secretId, reason |-> reason,
     challenge |-> buildChallenge(secretId, reason, id), status |-> "pending",
     approvalSig |-> Null, createdAt |-> t, respondedAt |-> Null,
     expiresAt |-> t + TimeoutOf(timeoutMs)]

createApproval(secretId, phoneId, reason, timeoutMs) ==
    /\ Len(approvals) < MaxApprovals
    /\ approvals' = Append(approvals,
            NewApproval(Len(approvals) + 1, secretId, phoneId, reason, timeoutMs, now))
    /\ UNCHANGED <<now, calls, authVars, retrVars, pairVars>>

\* createApproval, lines 48-53: the ApprovalResult built from the record.
ApprovalResult(record) ==
    [id |-> record.id, status |-> record.status, challenge |-> record.challenge,
     expiresAt |-> record.expiresAt]

\* A call returns or throws: its arguments other than the id, and what it
\* read and when, are dropped; its outcome is kept.
Finish(p, code, out, wrote) ==
    [calls EXCEPT ![p].pc = "done", ![p].code = code, ![p].out = out, ![p].wrote = wrote,
                  ![p].snap = NoApproval, ![p].at = 0, ![p].sig = Null, ![p].phone = ""]

\* approveRequest, line 66: the read.
ApproveRead(p, id, sig, phone) ==
    /\ calls[p].pc = "idle"
    /\ calls' = [calls EXCEPT ![p] = [IdleCall EXCEPT !.op = "approve", !.pc = "check",
                    !.id = id, !.sig = Some(sig), !.phone = phone, !.snap = findUnique(id)]]
    /\ UNCHANGED <<now, approvals, authVars, retrVars, pairVars>>

\* approveRequest, lines 68-91: the synchronous checks after the read.
ApproveCheckDeadlineFirst(p) ==
    LET c == calls[p] IN
    /\ c.op = "approve" /\ c.pc = "check"
    /\ calls' =
         IF c.snap = NoApproval THEN Finish(p, "approval_not_found", <<>>, FALSE)
         ELSE IF IsPastDeadline(c.snap.expiresAt, now)
              THEN [calls EXCEPT ![p].pc = "write_expired", ![p].at = now]
         ELSE IF c.snap.status # "pending" THEN Finish(p, "already_resolved", <<>>, FALSE)
         ELSE IF ~verifyApproval(PhonePub(c.phone), c.snap.challenge, c.sig[1])
              THEN Finish(p, "invalid_signature", <<>>, FALSE)
         ELSE [calls EXCEPT ![p].pc = "write_approved", ![p].at = now]
    /\ UNCHANGED <<now, approvals, authVars, retrVars, pairVars>>
ApproveCheck(p) ==
    LET c == calls[p] IN
    /\ c.op = "approve" /\ c.pc = "check"
    /\ calls' =
         IF c.snap = NoApproval THEN Finish(p, "approval_not_found", <<>>, FALSE)
         ELSE IF c.snap.status # "pending" THEN Finish(p, "already_resolved", <<>>, FALSE)
         ELSE IF IsPastDeadline(c.snap.expiresAt, now)
              THEN [calls EXCEPT ![p].pc = "write_expired", ![p].at = now]
         ELSE IF ~verifyApproval(PhonePub(c.phone), c.snap.challenge, c.sig[1])
              THEN Finish(p, "invalid_signature", <<>>, FALSE)
         ELSE [calls EXCEPT ![p].pc = "write_approved", ![p].at = now]
    /\ UNCHANGED <<now, approvals, authVars, retrVars, pairVars>>

\* approveRequest, lines 78-82: mark expired, then throw.
ApproveExpire(p) ==
    LET c == calls[p] IN
    /\ c.op = "approve" /\ c.pc = "write_expired"
    /\ approvals' = UpdateById(c.id, ExpiredData(approvals[c.id], now))
    /\ calls' = [Finish(p, "expired", <<>>, TRUE) EXCEPT
                    ![p].at = c.at, ![p].sig = c.sig, ![p].phone = c.phone]
    /\ UNCHANGED <<now, authVars, retrVars, pairVars>>

\* approveRequest, lines 93-100: the approving update, whose row is returned.
ApproveWrite(p) ==
    LET c == calls[p] IN
    /\ c.op = "approve" /\ c.pc = "write_approved"
    /\ approvals' = UpdateById(c.id, ApprovedData(approvals[c.id], c.sig[1], now))
    /\ calls' = Finish(p, "ok", <<approvals'[c.id]>>, TRUE)
    /\ UNCHANGED <<now, authVars, retrVars, pairVars>>

\* rejectRequest, lines 109-117: the read and the checks on what was read.
\* phone is the phone the reject route was authenticated as; the route
\* passes only the id on.
RejectRead(p, id, phone) ==
    /\ calls[p].pc = "idle"
    /\ LET snap == findUnique(id)
           c == [IdleCall EXCEPT !.op = "reject", !.id = id, !.phone = phone,
                                 !.snap = snap, !.at = now]
       IN calls' = [calls EXCEPT ![p] =
            IF snap = NoApproval
               THEN [c EXCEPT !.pc = "done", !.code = "approval_not_found",
                              !.snap = NoApproval, !.phone = "", !.at = 0]
            ELSE IF snap.status # "pending"
               THEN [c EXCEPT !.pc = "done", !.code = "already_resolved",
                              !.snap = NoApproval, !.phone = "", !.at = 0]
            ELSE [c EXCEPT !.pc = "write_denied"]]
    /\ UNCHANGED <<now, approvals, authVars, retrVars, pairVars>>

\* rejectRequest, lines 119-125: the denying update.
RejectWrite(p) ==
    LET c == calls[p] IN
    /\ c.op = "reject" /\ c.pc = "write_denied"
    /\ approvals' = UpdateById(c.id, DeniedData(approvals[c.id], now))
    /\ calls' = Finish(p, "ok", <<approvals'[c.id]>>, TRUE)
    /\ UNCHANGED <<now, authVars, retrVars, pairVars>>

\* getStatus, line 153: the read.
GetStatusRead(p, id) ==
    /\ calls[p].pc = "idle"
    /\ calls' = [calls EXCEPT ![p] = [IdleCall EXCEPT !.op = "getStatus", !.pc = "check",
                    !.id = id, !.snap = findUnique(id)]]
    /\ UNCHANGED <<now, approvals, authVars, retrVars, pairVars>>

\* getStatus, lines 155-167: null, the lazy-expiry test, or the row as read.
GetStatusCheck(p) ==
    LET c == calls[p] IN
    /\ c.op = "getStatus" /\ c.pc = "check"
    /\ calls' =
         IF c.snap = NoApproval THEN Finish(p, "ok", <<>>, FALSE)
         ELSE IF c.snap.status = "pending" /\ IsPastDeadline(c.snap.expiresAt, now)
              THEN [calls EXCEPT ![p].pc = "write_expired", ![p].at = now]
         ELSE Finish(p, "ok", <<c.snap>>, FALSE)
    /\ UNCHANGED <<now, approvals, authVars, retrVars, pairVars>>

\* getStatus, lines 161-164: the expiring update, whose row is returned.
GetStatusExpire(p) ==
    LET c == calls[p] IN
    /\ c.op = "getStatus" /\ c.pc = "write_expired"
    /\ approvals' = UpdateById(c.id, ExpiredData(approvals[c.id], now))
    /\ calls' = Finish(p, "ok", <<approvals'[c.id]>>, TRUE)
    /\ UNCHANGED <<now, authVars, retrVars, pairVars>>

\* updateMany of expireStale / expireStaleForTenant: one statement that
\* selects on status, phone and deadline and rewrites the selected rows.
ExpireMany(phoneIds, t) ==
    [i \in DOMAIN approvals |->
        IF /\ approvals[i].status = "pending"
           /\ approvals[i].phoneId \in phoneIds
           /\ IsStale(approvals[i].expiresAt, t)
        THEN ExpiredData(approvals[i], t)
        ELSE approvals[i]]

\* expireStaleForTenant, lines 193-199: the phones of the tenant.
PhonesOfAnyTenant(tenantId) == Phones
PhonesOf(tenantId) == {ph \in Phones : PhoneTenant(ph) = tenantId}

\* getPending, line 134: expireStaleForTenant(tenantId).
GetPendingExpire(p, tenantId) ==
    /\ calls[p].pc = "idle"
    /\ approvals' = ExpireMany(PhonesOf(tenantId), now)
    /\ calls' = [calls EXCEPT ![p] = [IdleCall EXCEPT !.op = "getPending", !.pc = "list",
                    !.tenant = tenantId, !.at = now]]
    /\ UNCHANGED <<now, authVars, retrVars, pairVars>>

\* getPending, lines 136-145: findMany, ordered by createdAt (= by id).
PendingOfAnyTenant(tenantId) ==
    SelectSeq(approvals, LAMBDA row : row.status = "pending")
PendingOf(tenantId) ==
    SelectSeq(approvals,
        LAMBDA row : row.status = "pending" /\ PhoneTenant(row.phoneId) = tenantId)

GetPendingList(p) ==
    LET c == calls[p] IN
    /\ c.op = "getPending" /\ c.pc = "list"
    /\ calls' = [Finish(p, "ok", PendingOf(c.tenant), FALSE) EXCEPT ![p].at = c.at]
    /\ UNCHANGED <<now, approvals, authVars, retrVars, pairVars>>

\* expireStale(): the bulk expiry over all phones.
ExpireStale(p) ==
    /\ calls[p].pc = "idle"
    /\ approvals' = ExpireMany(Phones, now)
    /\ calls' = [calls EXCEPT ![p] = [IdleCall EXCEPT !.op = "expireStale", !.pc = "done",
                    !.code = "ok"]]
    /\ UNCHANGED <<now, authVars, retrVars, pairVars>>

Timeouts == {Null, Some(ShortTimeout)}

Next ==
    \/ Tick
    \/ \E s \in SecretIds, ph \in Phones, r \in Reasons, tm \in Timeouts :
            createApproval(s, ph, r, tm)
    \/ \E p \in Procs, id \in 1..MaxApprovals, sig \in Signatures, ph \in Phones :
            ApproveRead(p, id, sig, ph)
    \/ \E p \in Procs : ApproveCheck(p)
    \/ \E p \in Procs : ApproveExpire(p)
    \/ \E p \in Procs : ApproveWrite(p)
    \/ \E p \in Procs, id \in 1..MaxApprovals, ph \in Phones : RejectRead(p, id, ph)
    \/ \E p \in Procs : RejectWrite(p)
    \/ \E p \in Procs, id \in 1..MaxApprovals : GetStatusRead(p, id)
    \/ \E p \in Procs : GetStatusCheck(p)
    \/ \E p \in Procs : GetStatusExpire(p)
    \/ \E p \in Procs, t \in Tenants : GetPendingExpire(p, t)
    \/ \E p \in Procs : GetPendingList(p)
    \/ \E p \in Procs : ExpireStale(p)

Spec == Init /\ [][Next]_vars

TypeOK ==
    /\ now \in 0..MaxNow
    /\ Len(approvals) <= MaxApprovals

(***************************************************************************)
(* Claims about the approval machine.                                      *)
(***************************************************************************)
Rows == DOMAIN approvals
Resolved == {"approved", "denied", "expired"}

\* The calls that have finished after writing the status of row i.
Winners(i) == {p \in Procs : calls[p].pc = "done" /\ calls[p].id = i /\ calls[p].wrote}

\* C1: for every approval record at most one approve, reject or status call
\* performs the transition out of pending; every other caller fails.
C1_AtMostOneWinner == \A i \in Rows : Cardinality(Winners(i)) <= 1

\* C2: a record whose status is approved, denied or expired keeps that
\* status through every later step.
C2_TerminalPermanent ==
    [][\A i \in Rows : approvals[i].status \in Resolved
            => approvals'[i].status = approvals[i].status]_vars

\* C7: a record is resolved (approved, denied or expired) exactly when its
\* responded_at is set; a pending record has a null responded_at.
C7_RespondedAtIffResolved ==
    \A i \in Rows :
        /\ approvals[i].status \in Resolved \cup {"pending"}
        /\ approvals[i].status \in Resolved <=> approvals[i].respondedAt # Null

\* C7 witness: getPending has lazily expired a record and stamped it.
C7_Witness ==
    \E p \in Procs, i \in Rows :
        /\ calls[p].op = "getPending" /\ calls[p].pc = "done"
        /\ approvals[i].status = "expired"
        /\ approvals[i].respondedAt # Null

\* Process p completes its call in this step.
Completes(p) == calls[p].pc # "done" /\ calls'[p].pc = "done"

\* C8: an access to a pending record at or after its deadline (approve,
\* reject, status, list pending of its tenant) leaves the record expired,
\* never approved, denied or still pending.
C8_AccessAfterDeadlineExpires ==
    [][/\ \A p \in Procs :
            /\ Completes(p)
            /\ calls[p].op \in {"approve", "reject", "getStatus"}
            /\ calls[p].snap.status = "pending"
            /\ calls[p].snap.expiresAt <= calls[p].at
            => approvals'[calls[p].id].status = "expired"
       /\ \A p \in Procs, i \in Rows :
            /\ calls[p].pc = "idle" /\ calls'[p].op = "getPending"
            /\ calls'[p].tenant = PhoneTenant(approvals[i].phoneId)
            /\ approvals[i].status = "pending"
            /\ approvals[i].expiresAt <= now
            => approvals'[i].status = "expired"]_vars

\* C9: approveRequest whose deadline test runs on a pending record at
\* now >= expires_at (equality included) goes on to mark the record
\* expired with responded_at = now, stores no signature and fails Expired (410).
C9_ApproveAfterDeadline ==
    [][\A p \in Procs :
        /\ ( /\ calls[p].op = "approve" /\ calls[p].pc = "check"
              /\ calls'[p].pc # "check"
              /\ calls[p].snap.status = "pending"
              /\ calls[p].snap.expiresAt <= now )
            => calls'[p].pc = "write_expired" /\ approvals' = approvals
        /\ ( /\ calls[p].op = "approve" /\ calls[p].pc = "write_expired"
              /\ Completes(p) )
            => /\ approvals'[calls[p].id].status = "expired"
               /\ approvals'[calls[p].id].respondedAt = Some(now)
               /\ approvals'[calls[p].id].approvalSig = approvals[calls[p].id].approvalSig
               /\ calls'[p].code = "expired"
               /\ approveHttp(calls'[p].code) = 410]_vars

\* C9 witness: an approve with a valid signature, checked exactly at the
\* deadline, has failed Expired and the record is expired without signature.
C9_Witness ==
    \E p \in Procs :
        /\ calls[p].op = "approve" /\ calls[p].pc = "done" /\ calls[p].code = "expired"
        /\ calls[p].at = approvals[calls[p].id].expiresAt
        /\ calls[p].sig = Some(Sign(approvals[calls[p].id].phoneId,
                                     approvals[calls[p].id].challenge))
        /\ calls[p].phone = approvals[calls[p].id].phoneId
        /\ approvals[calls[p].id].status = "expired"
        /\ approvals[calls[p].id].respondedAt # Null
        /\ approvals[calls[p].id].approvalSig = Null

\* C10: approveRequest on a pending, unexpired record with a signature made
\* by another key or over another message fails InvalidSignature (400) and
\* writes nothing: the record stays as it was.
C10_InvalidSignatureNoChange ==
    [][\A p \in Procs :
        ( /\ calls[p].op = "approve" /\ calls[p].pc = "check"
          /\ calls'[p].pc # "check"
          /\ calls[p].snap.status = "pending"
          /\ now < calls[p].snap.expiresAt
          /\ \/ calls[p].sig[1].key # PhonePub(calls[p].phone)
             \/ calls[p].sig[1].msg # calls[p].snap.challenge )
        => /\ calls'[p].pc = "done"
           /\ calls'[p].code = "invalid_signature"
           /\ approveHttp(calls'[p].code) = 400
           /\ ~calls'[p].wrote
           /\ approvals' = approvals]_vars

\* C10 witness: an approve has failed InvalidSignature and the record is
\* still pending with no responded_at and no signature.
C10_Witness ==
    \E p \in Procs :
        /\ calls[p].op = "approve" /\ calls[p].pc = "done"
        /\ calls[p].code = "invalid_signature"
        /\ approvals[calls[p].id].status = "pending"
        /\ approvals[calls[p].id].respondedAt = Null
        /\ approvals[calls[p].id].approvalSig = Null

\* C11: every record getPending returns is pending and has not reached its
\* deadline when the call's bulk expiry ran (expires_at > that time); a
\* record whose expires_at equals that time is not returned.
C11_PendingListUnexpired ==
    [][\A p \in Procs :
        calls[p].op = "getPending" /\ calls[p].pc = "list" /\ Completes(p)
        => \A k \in DOMAIN calls'[p].out :
              /\ calls'[p].out[k].status = "pending"
              /\ calls[p].at < calls'[p].out[k].expiresAt]_vars

\* C12: getPending(T) returns only records whose phone belongs to tenant T.
C12_PendingListOwnTenant ==
    \A p \in Procs :
        calls[p].op = "getPending" /\ calls[p].pc = "done"
        => \A k \in DOMAIN calls[p].out :
              PhoneTenant(calls[p].out[k].phoneId) = calls[p].tenant

\* C12 witness: getPending of one tenant has returned nothing while a
\* record of the other tenant's phone is pending and before its deadline.
C12_Witness ==
    \E p \in Procs, i \in Rows :
        /\ calls[p].op = "getPending" /\ calls[p].pc = "done"
        /\ calls[p].out = <<>>
        /\ approvals[i].status = "pending" /\ now < approvals[i].expiresAt
        /\ approvals[i].createdAt <= calls[p].at
        /\ PhoneTenant(approvals[i].phoneId) # calls[p].tenant

\* C13: an approve or reject request authenticated as a phone of one tenant
\* never changes the status of an approval whose phone belongs to another
\* tenant.
C13_OtherTenantCannotAct ==
    [][\A p \in Procs :
        /\ calls[p].op \in {"approve", "reject"}
        /\ calls[p].id \in Rows
        /\ calls'[p] # calls[p]
        /\ PhoneTenant(calls[p].phone) # PhoneTenant(approvals[calls[p].id].phoneId)
        => approvals'[calls[p].id].status = approvals[calls[p].id].status]_vars

\* C14: a record is approved only with a signature that verifies over the
\* record's own stored challenge under the public key of the phone the
\* approval was assigned to.
C14_ApprovedBySignatureOfAssignedPhone ==
    \A i \in Rows :
        approvals[i].status = "approved"
        => /\ approvals[i].approvalSig # Null
           /\ verifyApproval(PhonePub(approvals[i].phoneId), approvals[i].challenge,
                             approvals[i].approvalSig[1])

\* C28: approveRequest tests, on the record it read, in this order: missing,
\* status not pending, deadline passed, signature invalid.  A record read
\* as resolved yields AlreadyResolved (409) and no write even when its
\* deadline has passed; a record read as pending whose deadline has passed
\* yields Expired (410) whatever the signature.
C28_ApproveFailureOrder ==
    [][\A p \in Procs :
        /\ ( /\ calls[p].op = "approve" /\ calls[p].pc = "check"
             /\ calls'[p].pc # "check" )
            => /\ calls[p].snap = NoApproval
                    => /\ calls'[p].pc = "done"
                       /\ calls'[p].code = "approval_not_found"
               /\ calls[p].snap.status \in Resolved
                    => /\ calls'[p].pc = "done"
                       /\ calls'[p].code = "already_resolved"
                       /\ approveHttp(calls'[p].code) = 409
                       /\ approvals' = approvals
               /\ (calls[p].snap.status = "pending" /\ calls[p].snap.expiresAt <= now)
                    => calls'[p].pc = "write_expired"
        /\ ( /\ calls[p].op = "approve" /\ calls[p].pc = "write_expired"
             /\ Completes(p) )
            => calls'[p].code = "expired" /\ approveHttp(calls'[p].code) = 410]_vars

\* C28 witness: on a record whose deadline was reached at creation, one
\* approve with a signature that does not verify has failed Expired, and
\* another approve, reading the record resolved, has failed AlreadyResolved.
C28_Witness ==
    \E p, q \in Procs, i \in Rows :
        /\ p # q
        /\ approvals[i].expiresAt <= approvals[i].createdAt
        /\ approvals[i].status = "expired"
        /\ calls[q].op = "approve" /\ calls[q].pc = "done" /\ calls[q].id = i
        /\ calls[q].code = "expired"
        /\ ~verifyApproval(PhonePub(calls[q].phone), approvals[i].challenge, calls[q].sig[1])
        /\ calls[p].op = "approve" /\ calls[p].pc = "done" /\ calls[p].id = i
        /\ calls[p].code = "already_resolved"

\* The getStatus call of r has finished after lazily expiring record i.
StatusExpired(r, i) ==
    /\ calls[r].op = "getStatus" /\ calls[r].pc = "done" /\ calls[r].id = i
    /\ calls[r].wrote /\ calls[r].out # <<>> /\ calls[r].out[1].status = "expired"

\* C29: once a getStatus call has resolved a record to expired, no step of
\* another getStatus, getPending or expireStale call changes the record:
\* it stays expired with the responded_at of that first resolution, and a
\* getStatus that found the record returns it as the first one did.
C29_LazyExpiryIdempotent ==
    [][\A r, q \in Procs, i \in Rows :
        /\ StatusExpired(r, i)
        /\ q # r /\ calls'[q] # calls[q]
        /\ calls'[q].op \in {"getStatus", "getPending", "expireStale"}
        => /\ approvals'[i].status = "expired"
           /\ approvals'[i].respondedAt = calls[r].out[1].respondedAt
           /\ ( /\ Completes(q) /\ calls'[q].op = "getStatus" /\ calls'[q].id = i
                /\ calls[q].snap # NoApproval )
                => calls'[q].out = calls[r].out]_vars

\* C30: no step removes an approval record or changes its challenge,
\* secret, phone, reason, created_at or expires_at; the approval signature
\* changes only in the approving write of approveRequest.
C30_CreationFieldsFixed ==
    [][\A i \in Rows :
        /\ i \in DOMAIN approvals'
        /\ approvals'[i].challenge = approvals[i].challenge
        /\ approvals'[i].secretId = approvals[i].secretId
        /\ approvals'[i].phoneId = approvals[i].phoneId
        /\ approvals'[i].reason = approvals[i].reason
        /\ approvals'[i].createdAt = approvals[i].createdAt
        /\ approvals'[i].expiresAt = approvals[i].expiresAt
        /\ approvals'[i].approvalSig # approvals[i].approvalSig
            => \E p \in Procs :
                  /\ calls[p].op = "approve" /\ calls[p].pc = "write_approved"
                  /\ calls[p].id = i /\ Completes(p)]_vars

\* C30 witness: a record has been denied by rejectRequest and still has
\* the challenge and deadline it was created with and no signature.
C30_Witness ==
    \E p \in Procs, i \in Rows :
        /\ calls[p].op = "reject" /\ calls[p].pc = "done" /\ calls[p].wrote
        /\ calls[p].id = i
        /\ approvals[i].status = "denied"
        /\ approvals[i].challenge =
              buildChallenge(approvals[i].secretId, approvals[i].reason, i)
        /\ approvals[i].expiresAt = approvals[i].createdAt + DEFAULT_TIMEOUT_MS
        /\ approvals[i].approvalSig = Null

\* C31: a step of createApproval for secret s, phone ph, reason r and
\* timeout tm appends one record that is pending and unanswered, expires at
\* the creation time plus tm (plus 300,000 ms when no timeout is given) and
\* stores the challenge nonce || s || SHA256(r); the result returned to the
\* caller carries that stored challenge and deadline.
C31_CreateApprovalRecord ==
    [][\A s \in SecretIds, ph \in Phones, r \in Reasons, tm \in Timeouts :
        createApproval(s, ph, r, tm)
        => LET n == Len(approvals')
               rec == approvals'[n]
           IN /\ n = Len(approvals) + 1
              /\ rec.status = "pending"
              /\ rec.respondedAt = Null /\ rec.approvalSig = Null
              /\ rec.secretId = s /\ rec.phoneId = ph /\ rec.reason = r
              /\ rec.createdAt = now
              /\ rec.expiresAt = now + (IF tm = Null THEN 300000 ELSE tm[1])
              /\ rec.challenge = <<n, s, [sha256 |-> r]>>
              /\ \A i \in Rows : approvals[i].challenge[1] # rec.challenge[1]
              /\ ApprovalResult(rec).challenge = rec.challenge
              /\ ApprovalResult(rec).expiresAt = rec.expiresAt
              /\ ApprovalResult(rec).status = "pending"]_vars

\* C31 witness: a record created with an explicit timeout is pending with
\* its deadline that timeout after its creation.
C31_Witness ==
    \E i \in Rows :
        /\ approvals[i].status = "pending"
        /\ approvals[i].expiresAt = approvals[i].createdAt + ShortTimeout
        /\ approvals[i].challenge =
              buildChallenge(approvals[i].secretId, approvals[i].reason, i)

\* C36: in every state a record carries an approval signature exactly when
\* its status is approved; a pending, denied or expired record carries none.
C36_SignatureIffApproved ==
    \A i \in Rows :
        approvals[i].approvalSig # Null <=> approvals[i].status = "approved"

\* C39: the bulk expiry of getPending(T) changes only records that are
\* pending, past their deadline and addressed to a phone of tenant T, and
\* what it changes is their status and responded_at; every record of
\* another tenant is left as it was, also when pending and past its deadline.
C39_GetPendingTouchesOwnTenantOnly ==
    [][\A p \in Procs, t \in Tenants :
        GetPendingExpire(p, t)
        => /\ DOMAIN approvals' = DOMAIN approvals
           /\ \A i \in Rows :
                IF /\ PhoneTenant(approvals[i].phoneId) = t
                   /\ approvals[i].status = "pending"
                   /\ approvals[i].expiresAt < now
                THEN approvals'[i] = [approvals[i] EXCEPT !.status = "expired",
                                                          !.respondedAt = Some(now)]
                ELSE approvals'[i] = approvals[i]]_vars

\* C39 witness: getPending of one tenant ran its bulk expiry after the
\* deadline of a record addressed to another tenant's phone, and that
\* record is still pending.
C39_Witness ==
    \E p \in Procs, i \in Rows :
        /\ calls[p].op = "getPending" /\ calls[p].pc \in {"list", "done"}
        /\ PhoneTenant(approvals[i].phoneId) # calls[p].tenant
        /\ approvals[i].status = "pending"
        /\ approvals[i].createdAt <= calls[p].at
        /\ approvals[i].expiresAt < calls[p].at

\* Approvals whose deadline falls after their creation and inside the
\* modelled time: createApproval with a timeout of ShortTimeout + 1 ms,
\* and the approve calls on them.
LateTimeouts == {Some(ShortTimeout + 1)}

NextLate ==
    \/ Tick
    \/ \E s \in SecretIds, ph \in Phones, r \in Reasons, tm \in LateTimeouts :
            createApproval(s, ph, r, tm)
    \/ \E p \in Procs, id \in 1..MaxApprovals, sig \in Signatures, ph \in Phones :
            ApproveRead(p, id, sig, ph)
    \/ \E p \in Procs : ApproveCheck(p)
    \/ \E p \in Procs : ApproveExpire(p)
    \/ \E p \in Procs : ApproveWrite(p)

SpecLate == Init /\ [][NextLate]_vars

\* C37: in every state a record whose status is approved was responded to
\* strictly before its deadline, also when time advanced between the
\* deadline test of approveRequest and its write.
C37_ApprovedBeforeDeadline ==
    \A i \in Rows :
        approvals[i].status = "approved"
        => /\ approvals[i].respondedAt # Null
           /\ approvals[i].respondedAt[1] < approvals[i].expiresAt

(***************************************************************************)
(* The AuthGate: middleware/auth.ts (agents), middleware/phone-auth.ts    *)
(* (phones) and services/nonce.ts.                                         *)
(***************************************************************************)
MAX_AGE_MS == 60000
NONCE_TTL_MS == 120000
CLEANUP_INTERVAL == 50

MaxAuthTicks == 2       \* the gate's clock runs to MaxAuthTicks freshness windows
MaxMsTicks == 1         \* and up to MaxMsTicks single milliseconds past a window

Agents == {"a1", "a2", "a3"}
AgentTenant(a) == IF a = "a3" THEN "T2" ELSE "T1"
\* The Ed25519 public key registered for an agent.
AgentPub(a) == a

\* Values of the identity header: a paired agent, a paired phone, an id
\* that is not paired, and no header at all.
Idents == {"a1", "ph1", "ghost", ""}
\* The keys a client may sign with.
Signers == {"a1", "ph1"}
\* Values of the X-Timestamp header: the start of the clock and one
\* freshness window later.
TimeStamps == {0, MAX_AGE_MS}

\* Math.abs
AbsOfPastOnly(x) == x
Abs(x) == IF x < 0 THEN -x ELSE x

\* signRequest: the payload timestamp:method:path:hex(SHA256(body)).
RequestPayload(timestamp, content) == <<timestamp, content>>
signRequest(privateKey, timestamp, content) ==
    Sign(privateKey, RequestPayload(timestamp, content))

\* verifyRequest: the replay window, then the Ed25519 check.
verifyRequestNoWindow(publicKey, timestamp, content, signature, t) ==
    Verify(publicKey, RequestPayload(timestamp, content), signature)
verifyRequest(publicKey, timestamp, content, signature, t) ==
    IF Abs(t - timestamp) > MAX_AGE_MS
    THEN FALSE
    ELSE Verify(publicKey, RequestPayload(timestamp, content), signature)

\* createHash('sha256').update(sig).digest('hex')
SigHash(sig) == Hash(sig)

\* prisma.usedNonce.findUnique({ where: { nonce } }) / isReplay
NonceExists(h) == \E r \in usedNonces : r.nonce = h

\* new Date(Date.now() + 120_000)
NonceExpiryOneWindow(t) == t + MAX_AGE_MS
NonceExpiry(t) == t + NONCE_TTL_MS

\* The unique index used_nonces_nonce_key: does a create of h succeed?
CreateAlways(h) == TRUE
CreateSucceeds(h) == ~NonceExists(h)

\* The gate's clock advances to the next multiple of the freshness window.
AuthTick ==
    /\ now < MaxAuthTicks * MAX_AGE_MS
    /\ now' = ((now \div MAX_AGE_MS) + 1) * MAX_AGE_MS
    /\ UNCHANGED <<apprVars, authVars, retrVars, pairVars>>

\* The gate's clock advances by one millisecond.
AuthTickMs ==
    /\ now % MAX_AGE_MS < MaxMsTicks
    /\ now' = now + 1
    /\ UNCHANGED <<apprVars, authVars, retrVars, pairVars>>

Reject(p, status, cause) ==
    [reqs EXCEPT ![p].pc = "done", ![p].status = status, ![p].cause = cause]

\* Lines 25-56 of both middlewares: headers, identity lookup, body,
\* verifyRequest.  known is the set of identities of the pipeline's table;
\* the value is the request after these steps.
AuthenticateUnverified(pipe, known, ident, ts, signer, t) ==
    LET sig == signRequest(signer, ts, "POST /api")
        r == [IdleReq EXCEPT !.pipe = pipe, !.ident = ident, !.sig = Some(sig)]
    IN
    IF ident = ""
       THEN [r EXCEPT !.pc = "done", !.status = 401, !.cause = "missing_headers"]
    ELSE IF ident \notin known
       THEN [r EXCEPT !.pc = "done", !.status = 401, !.cause = "unknown_identity"]
    ELSE [r EXCEPT !.pc = "nonce_check"]
Authenticate(pipe, known, ident, ts, signer, t) ==
    LET sig == signRequest(signer, ts, "POST /api")
        r == [IdleReq EXCEPT !.pipe = pipe, !.ident = ident, !.sig = Some(sig)]
    IN
    IF ident = ""
       THEN [r EXCEPT !.pc = "done", !.status = 401, !.cause = "missing_headers"]
    ELSE IF ident \notin known
       THEN [r EXCEPT !.pc = "done", !.status = 401, !.cause = "unknown_identity"]
    ELSE IF ~verifyRequest(ident, ts, "POST /api", sig, t)
       THEN [r EXCEPT !.pc = "done", !.status = 401, !.cause = "invalid_signature"]
    ELSE [r EXCEPT !.pc = "nonce_check"]

\* auth.ts lines 25-56: a request enters the agent pipeline.
AgentAuthenticate(p, ident, ts, signer) ==
    /\ reqs[p].pc = "idle"
    /\ reqs' = [reqs EXCEPT ![p] = Authenticate("agent", Agents, ident, ts, signer, now)]
    /\ UNCHANGED <<now, apprVars, usedNonces, callCount, cleanups, retrVars, pairVars>>

\* phone-auth.ts lines 25-57: a request enters the phone pipeline.
PhoneAuthenticate(p, ident, ts, signer) ==
    /\ reqs[p].pc = "idle"
    /\ reqs' = [reqs EXCEPT ![p] = Authenticate("phone", Phones, ident, ts, signer, now)]
    /\ UNCHANGED <<now, apprVars, usedNonces, callCount, cleanups, retrVars, pairVars>>

\* auth.ts lines 59-72 / phone-auth.ts lines 60-67: the presence check and
\* the expiry of the row about to be stored.
NonceCheck(p) ==
    /\ reqs[p].pc = "nonce_check"
    /\ reqs' = IF NonceExists(SigHash(reqs[p].sig[1]))
               THEN Reject(p, 409, "replay")
               ELSE [reqs EXCEPT ![p].pc = "nonce_insert", ![p].exp = NonceExpiry(now)]
    /\ UNCHANGED <<now, apprVars, usedNonces, callCount, cleanups, retrVars, pairVars>>

\* prisma.usedNonce.create: a duplicate nonce violates the unique index and
\* the create throws; neither middleware catches, the framework answers 500.
NonceRow(p) == [nonce |-> SigHash(reqs[p].sig[1]), expiresAt |-> reqs[p].exp]

\* auth.ts lines 69-78: create, then the handler.
AgentNonceInsert(p) ==
    /\ reqs[p].pc = "nonce_insert" /\ reqs[p].pipe = "agent"
    /\ IF CreateSucceeds(SigHash(reqs[p].sig[1]))
       THEN /\ usedNonces' = usedNonces \cup {NonceRow(p)}
            /\ reqs' = [reqs EXCEPT ![p].pc = "handler"]
       ELSE /\ usedNonces' = usedNonces
            /\ reqs' = Reject(p, 500, "unique_violation")
    /\ UNCHANGED <<now, apprVars, callCount, cleanups, retrVars, pairVars>>

\* phone-auth.ts line 67 and storeNonce: create, count, every
\* CLEANUP_INTERVAL-th call start cleanExpired without awaiting it.
PhoneStoreNonce(p) ==
    /\ reqs[p].pc = "nonce_insert" /\ reqs[p].pipe = "phone"
    /\ IF CreateSucceeds(SigHash(reqs[p].sig[1]))
       THEN /\ usedNonces' = usedNonces \cup {NonceRow(p)}
            /\ reqs' = [reqs EXCEPT ![p].pc = "handler"]
            /\ IF callCount + 1 >= CLEANUP_INTERVAL
               THEN callCount' = 0 /\ cleanups' = cleanups \cup {now}
               ELSE callCount' = callCount + 1 /\ cleanups' = cleanups
       ELSE /\ usedNonces' = usedNonces
            /\ reqs' = Reject(p, 500, "unique_violation")
            /\ UNCHANGED <<callCount, cleanups>>
    /\ UNCHANGED <<now, apprVars, retrVars, pairVars>>

\* Phone requests with other signatures: n calls of storeNonce whose rows
\* are not tracked here, up to and including the call that starts the next
\* cleanExpired.
OtherPhoneTraffic(n) ==
    /\ callCount + n <= CLEANUP_INTERVAL
    /\ cleanups = {}
    /\ IF callCount + n >= CLEANUP_INTERVAL
       THEN callCount' = 0 /\ cleanups' = {now}
       ELSE callCount' = callCount + n /\ cleanups' = cleanups
    /\ UNCHANGED <<now, apprVars, reqs, usedNonces, retrVars, pairVars>>

\* cleanExpired: the threshold new Date() was taken when storeNonce called
\* it; deleteMany({ where: { expiresAt: { lt: threshold } } }) runs later.
cleanExpired ==
    \E t \in cleanups :
        /\ usedNonces' = {r \in usedNonces : ~(r.expiresAt < t)}
        /\ cleanups' = cleanups \ {t}
        /\ UNCHANGED <<now, apprVars, reqs, callCount, retrVars, pairVars>>

NextAuth ==
    \/ AuthTick
    \/ AuthTickMs
    \/ \E p \in Procs, i \in Idents, ts \in TimeStamps, k \in Signers :
            AgentAuthenticate(p, i, ts, k)
    \/ \E p \in Procs, i \in Idents, ts \in TimeStamps, k \in Signers :
            PhoneAuthenticate(p, i, ts, k)
    \/ \E p \in Procs : NonceCheck(p)
    \/ \E p \in Procs : AgentNonceInsert(p)
    \/ \E p \in Procs : PhoneStoreNonce(p)
    \/ \E n \in {CLEANUP_INTERVAL - 1, CLEANUP_INTERVAL} : OtherPhoneTraffic(n)
    \/ cleanExpired

SpecAuth == Init /\ [][NextAuth]_vars

(***************************************************************************)
(* Claims about the AuthGate.                                              *)
(***************************************************************************)
\* The requests that passed the gate with signature sig.
Passed(sig) == {p \in Procs : reqs[p].pc = "handler" /\ reqs[p].sig = sig}

\* C3: for every signature at most one request carrying it passes the gate
\* and reaches its handler, whatever the interleaving of the two pipelines
\* and of nonce cleanup.
C3_SignatureAcceptedOnce ==
    \A p \in Procs : reqs[p].pc = "handler" => Cardinality(Passed(reqs[p].sig)) = 1

\* The identities known to a pipeline.
Known(pipe) == IF pipe = "agent" THEN Agents ELSE Phones

\* The request r, verified at time t, lacks its identity header, names an
\* unknown identity, is signed by another key, or is outside the window.
Unauthentic(r, t) ==
    \/ r.ident = ""
    \/ r.ident \notin Known(r.pipe)
    \/ r.sig[1].key # r.ident
    \/ Abs(t - r.sig[1].msg[1]) > MAX_AGE_MS

ResponseBody(cause) ==
    CASE cause = "missing_headers" -> "missing authentication headers"
      [] cause = "unknown_identity" -> "authentication failed"
      [] cause = "invalid_signature" -> "authentication failed"
      [] cause = "replay" -> "replayed request"
      [] OTHER -> "Internal Server Error"

\* C20: any two requests answered 401 receive the same status and body,
\* whatever the cause of the rejection.
C20_UnauthenticatedIndistinguishable ==
    \A p, q \in Procs :
        reqs[p].status = 401 /\ reqs[q].status = 401
        => ResponseBody(reqs[p].cause) = ResponseBody(reqs[q].cause)

\* C4: a request whose nonce insert fails on the unique index because an
\* identical request won the race is answered 409 Replayed.
C4_RaceLoserIsReplayed ==
    \A p \in Procs : reqs[p].cause = "unique_violation" => reqs[p].status = 409

\* C35: whenever cleanExpired removes a row, the signature the row records
\* is outside the freshness window, and a request never reaches its handler
\* while another request with the same signature has already reached its
\* own: a signature accepted once is never accepted again.
C35_CleanupNeverReopensReplay ==
    [][/\ \A n \in usedNonces \ usedNonces' :
            Abs(now - n.nonce.sha256.msg[1]) > MAX_AGE_MS
       /\ \A p \in Procs :
            (reqs'[p].pc = "handler" /\ reqs[p].pc # "handler")
            => \A q \in Procs \ {p} :
                  ~(reqs[q].pc = "handler" /\ reqs[q].sig = reqs[p].sig)]_vars

\* A row of used_nonces records the signature of request r.
Recorded(r, rows) == \E n \in rows : n.nonce = [sha256 |-> r.sig[1]]

C33_ReclaimEvery50thInsert ==
    [][\A p \in Procs :
        (reqs[p].pc = "nonce_insert" /\ Cardinality(usedNonces') > Cardinality(usedNonces)
            /\ reqs'[p] # reqs[p])
        => /\ reqs'[p].pc = "handler"
           /\ IF callCount + 1 >= 50
              THEN callCount' = 0 /\ now \in cleanups'
              ELSE callCount' = callCount + 1]_vars

(***************************************************************************)
(* The verification stage of the gate on its own (lines 25-56 of both     *)
(* middlewares), with timestamps on either side of the window's edges.    *)
(***************************************************************************)
FreshStamps == {0, MAX_AGE_MS, MAX_AGE_MS + 1}

NextFresh ==
    \/ AuthTick
    \/ AuthTickMs
    \/ \E p \in Procs, i \in Idents, ts \in FreshStamps, k \in Signers :
            AgentAuthenticate(p, i, ts, k)
    \/ \E p \in Procs, i \in Idents, ts \in FreshStamps, k \in Signers :
            PhoneAuthenticate(p, i, ts, k)

SpecFresh == Init /\ [][NextFresh]_vars

\* The request r names a known identity and is signed with its key.
CorrectlySigned(r) == r.ident \in Known(r.pipe) /\ r.sig[1].key = r.ident

\* C21: a correctly signed request passes the freshness check exactly when
\* its timestamp is at most 60,000 ms behind or ahead of the clock at
\* verification; otherwise it is answered 401, and no later step changes
\* that answer.
C21_FreshnessWindow ==
    [][\A p \in Procs :
        /\ (reqs[p].pc = "idle" /\ reqs'[p].pc # "idle" /\ CorrectlySigned(reqs'[p]))
            => /\ reqs'[p].pc = "nonce_check"
                    <=> /\ now - reqs'[p].sig[1].msg[1] <= 60000
                        /\ reqs'[p].sig[1].msg[1] - now <= 60000
               /\ reqs'[p].pc # "nonce_check"
                    => reqs'[p].pc = "done" /\ reqs'[p].status = 401
        /\ reqs[p].pc = "done" => reqs'[p] = reqs[p]]_vars

\* C21 witness: at clock 1, of two correctly signed requests stamped 60,001
\* one has passed (verified 60,000 ms ahead of the clock) and the other was
\* refused (verified 60,001 ms ahead, at clock 0).
C21_Witness ==
    \E p, q \in Procs :
        /\ now = 1
        /\ CorrectlySigned(reqs[p]) /\ CorrectlySigned(reqs[q])
        /\ reqs[p].sig[1].msg[1] = MAX_AGE_MS + 1 /\ reqs[p].pc = "nonce_check"
        /\ reqs[q].sig[1].msg[1] = MAX_AGE_MS + 1
        /\ reqs[q].pc = "done" /\ reqs[q].status = 401

\* C38: a step in which the gate answers a request 401 or 409 leaves
\* used_nonces unchanged, and every row added to used_nonces is the row of
\* a request waiting at its insert, whose identity is known to its pipeline
\* and whose signature was made with that identity's key.
C38_RejectedLeavesNoncesUnchanged ==
    [][/\ \A p \in Procs :
            (reqs[p].pc # "done" /\ reqs'[p].pc = "done" /\ reqs'[p].status \in {401, 409})
            => usedNonces' = usedNonces
       /\ \A n \in usedNonces' \ usedNonces :
            \E p \in Procs :
                /\ reqs[p].pc = "nonce_insert" /\ reqs'[p].pc = "handler"
                /\ n.nonce = [sha256 |-> reqs[p].sig[1]]
                /\ reqs[p].ident \in Known(reqs[p].pipe)
                /\ reqs[p].sig[1].key = reqs[p].ident]_vars

\* C38 witness: a request signed with another key was answered 401 and no
\* row records its signature, while a request of the same identity with
\* the same timestamp, validly signed, has reached its handler.
C38_Witness ==
    \E p, q \in Procs :
        /\ reqs[p].pc = "done" /\ reqs[p].status = 401
        /\ reqs[p].cause = "invalid_signature"
        /\ reqs[p].sig[1].key # reqs[p].ident
        /\ ~Recorded(reqs[p], usedNonces)
        /\ reqs[q].pc = "handler" /\ reqs[q].ident = reqs[p].ident
        /\ reqs[q].sig[1].msg = reqs[p].sig[1].msg
        /\ Recorded(reqs[q], usedNonces)

(***************************************************************************)
(* The X-Timestamp header as text.  A header value is described by its     *)
(* leading sign, the value of the decimal digits that follow (Null when   *)
(* there are none) and the characters after the digits.  Date.now() is    *)
(* far more than one window above zero, so a negative timestamp is never  *)
(* inside the window; the clock here starts at 0, and the negative header *)
(* is chosen more than one window below it.                               *)
(***************************************************************************)
TsText(sign, digits, rest) == [sign |-> sign, digits |-> digits, rest |-> rest]
TsTexts ==
    {TsText("", Some(MAX_AGE_MS), ""),          \* "60000"
     TsText("", Some(MAX_AGE_MS), "abc"),       \* "60000abc"
     TsText("-", Some(3 * MAX_AGE_MS), ""),     \* "-180000"
     TsText("", Null, "abc"),                   \* "abc"
     TsText("", Null, "")}                      \* ""

\* Number.parseInt(timestamp, 10): the signed value of the leading digits,
\* whatever follows them; NaN (Null) when there are no leading digits.
parseInt(text) ==
    IF text.digits = Null THEN Null
    ELSE IF text.sign = "-" THEN Some(0 - text.digits[1])
    ELSE Some(text.digits[1])

\* verifyRequest on the header text: the payload is built from the text as
\* received, the window is tested on its parsed value.
verifyRequestText(publicKey, text, content, signature, t) ==
    LET requestTime == parseInt(text) IN
    IF requestTime = Null \/ Abs(t - requestTime[1]) > MAX_AGE_MS
    THEN FALSE
    ELSE Verify(publicKey, RequestPayload(text, content), signature)

\* auth.ts lines 25-56 for a request of a known agent that signed the
\* payload with the header text in it.
AgentAuthenticateText(p, ident, text, signer) ==
    LET sig == signRequest(signer, text, "POST /api")
        r == [IdleReq EXCEPT !.pipe = "agent", !.ident = ident, !.sig = Some(sig)]
    IN
    /\ reqs[p].pc = "idle"
    /\ reqs' = [reqs EXCEPT ![p] =
          IF ident = "" \/ text = TsText("", Null, "")
             THEN [r EXCEPT !.pc = "done", !.status = 401, !.cause = "missing_headers"]
          ELSE IF ident \notin Agents
             THEN [r EXCEPT !.pc = "done", !.status = 401, !.cause = "unknown_identity"]
          ELSE IF ~verifyRequestText(AgentPub(ident), text, "POST /api", sig, now)
             THEN [r EXCEPT !.pc = "done", !.status = 401, !.cause = "invalid_signature"]
          ELSE [r EXCEPT !.pc = "nonce_check"]]
    /\ UNCHANGED <<now, apprVars, usedNonces, callCount, cleanups, retrVars, pairVars>>

NextText ==
    \/ AuthTick
    \/ AuthTickMs
    \/ \E p \in Procs, text \in TsTexts, k \in Signers :
            AgentAuthenticateText(p, "a1", text, k)

SpecText == Init /\ [][NextText]_vars

\* The header text is an unsigned decimal integer: digits and nothing else.
UnsignedDecimal(text) == text.sign = "" /\ text.digits # Null /\ text.rest = ""

\* C34: a request whose timestamp header is not an unsigned decimal integer
\* (empty, negative, without digits, or digits followed by other
\* characters) fails verification and is answered 401, also when it was
\* signed over that very text and its leading digits are inside the window.
C34_MalformedTimestampRejected ==
    [][\A p \in Procs :
        (reqs[p].pc = "idle" /\ reqs'[p].pc # "idle"
            /\ ~UnsignedDecimal(reqs'[p].sig[1].msg[1]))
        => reqs'[p].pc = "done" /\ reqs'[p].status = 401]_vars

(***************************************************************************)
(* The secrets routes: routes/secrets.ts and services/audit.ts.  The       *)
(* agent of a request is the one the auth middleware attached to it.       *)
(***************************************************************************)
MaxAudit == 1           \* audit_log rows ever written

Tiers == {"green", "yellow", "red"}
\* Tier values of a register body: the three tiers, an unknown one, and
\* "" for a body without the field.
RegTiers == Tiers \cup {"blue", ""}
Names == {"db-pass"}
\* A JSON body with every required field, or with one of them absent.
Bodies == {"ok", "missing"}
\* Retrieve bodies, further: every field present, but eph_x25519_pub is not
\* base64url ("bad_eph"), or kek_salt encodes 16 bytes ("bad_salt").
BodyForms == Bodies \cup {"bad_eph", "bad_salt"}

\* fromBase64Url: Buffer.from(str, 'base64url') decodes the characters it
\* can and never throws; the value is the number of bytes it yields.
EphLen(body) == IF body = "bad_eph" THEN 0 ELSE 32
SaltLen(body) == IF body = "bad_salt" THEN 16 ELSE 32

\* x25519.sharedSecret throws unless the public key has 32 bytes;
\* kdf.deriveKek (HKDF) takes a salt of any length.
SharedSecretThrows(len) == len # 32

\* The secret buffers of a completed derivation: shared inside
\* flows.deriveGreenKek, kek and kSession in the handler; and the ones the
\* handler wipes (lines 131-132).
Materialised == {"shared", "kek", "kSession"}
Wiped == {"kek", "kSession"}

\* prisma.secretMetadata.findUnique({ where: { id } }): the row or null.
findSecret(id) ==
    IF \E r \in secrets : r.id = id
    THEN CHOOSE r \in secrets : r.id = id
    ELSE NoSecret

\* secret.agentId !== agent.id
OwnerMatchesTenant(row, agent) == row.tenantId = AgentTenant(agent)
OwnerMatches(row, agent) == row.agentId = agent

\* secret.tier !== 'green'
TierServedNotRed(tier) == tier # "red"
TierServed(tier) == tier = "green"

\* The slot of process p holds no request that is still being handled.
Free(p) == hreqs[p].pc \in {"idle", "done"}

Answer(r, status) == [r EXCEPT !.pc = "done", !.status = status]

\* POST /:id/retrieve, lines 86-139: body validation, the metadata lookup,
\* the owner and tier checks, decoding, key derivation (an exception there
\* ends the request 500) and the wipes; the audit write is pending.
RetrieveRead(p, agent, id, body) ==
    LET r == [IdleHandler EXCEPT !.op = "retrieve", !.agent = agent,
                                 !.secretId = id, !.body = body]
        secret == findSecret(id)
        rs == [r EXCEPT !.seen = secret]
    IN
    /\ Free(p)
    /\ hreqs' = [hreqs EXCEPT ![p] =
          IF body = "missing" THEN Answer(r, 400)
          ELSE IF secret = NoSecret THEN Answer(rs, 404)
          ELSE IF ~OwnerMatches(secret, agent) THEN Answer(rs, 403)
          ELSE IF ~TierServed(secret.tier) THEN Answer(rs, 400)
          ELSE IF SharedSecretThrows(EphLen(body)) THEN Answer(rs, 500)
          ELSE [rs EXCEPT !.pc = "audit", !.live = Materialised \ Wiped]]
    /\ UNCHANGED <<now, apprVars, authVars, secrets, auditLog, pairVars>>

\* services/audit.ts createEntry as called by the retrieve route.
AuditEntry(h) ==
    [agentId |-> h.agent, secretId |-> h.secretId, tier |-> "green",
     result |-> "auto_granted"]

\* The response with enc_kek, with no audit row written.
RetrieveAuditUnlogged(p) ==
    /\ hreqs[p].op = "retrieve" /\ hreqs[p].pc = "audit"
    /\ hreqs' = [hreqs EXCEPT ![p] = [Answer(hreqs[p], 200) EXCEPT !.keys = TRUE]]
    /\ UNCHANGED <<now, apprVars, authVars, secrets, auditLog, pairVars>>
\* POST /:id/retrieve, lines 141-156: the audit row, then the response with
\* enc_kek.  audit_log.secret_id references secret_metadata: the create
\* throws when the secret row is gone, and the request ends 500.
RetrieveAudit(p) ==
    /\ hreqs[p].op = "retrieve" /\ hreqs[p].pc = "audit"
    /\ IF findSecret(hreqs[p].secretId) = NoSecret
       THEN /\ auditLog' = auditLog
            /\ hreqs' = [hreqs EXCEPT ![p] = Answer(hreqs[p], 500)]
       ELSE /\ Len(auditLog) < MaxAudit
            /\ auditLog' = Append(auditLog, AuditEntry(hreqs[p]))
            /\ hreqs' = [hreqs EXCEPT ![p] = [Answer(hreqs[p], 200) EXCEPT !.keys = TRUE]]
    /\ UNCHANGED <<now, apprVars, authVars, secrets, pairVars>>

\* POST /register, lines 22-46: validation and the duplicate-name lookup.
RegisterCheck(p, agent, id, name, tier) ==
    LET r == [IdleHandler EXCEPT !.op = "register", !.agent = agent, !.secretId = id,
                                 !.name = name, !.tier = tier,
                                 !.body = IF tier = "" THEN "missing" ELSE "ok"]
    IN
    /\ Free(p)
    /\ hreqs' = [hreqs EXCEPT ![p] =
          IF tier = "" THEN Answer(r, 400)
          ELSE IF tier \notin Tiers THEN Answer(r, 400)
          ELSE IF \E s \in secrets : s.agentId = agent /\ s.name = name
               THEN Answer(r, 409)
          ELSE [r EXCEPT !.pc = "create"]]
    /\ UNCHANGED <<now, apprVars, authVars, secrets, auditLog, pairVars>>

\* POST /register, lines 48-58: the create.  The primary key and the unique
\* index on (agent_id, name) make a conflicting create throw: 500.
RegisterCreate(p) ==
    LET h == hreqs[p]
        row == [id |-> h.secretId, tenantId |-> AgentTenant(h.agent),
                agentId |-> h.agent, name |-> h.name, tier |-> h.tier]
    IN
    /\ h.op = "register" /\ h.pc = "create"
    /\ IF \E s \in secrets : s.id = row.id \/ (s.agentId = row.agentId /\ s.name = row.name)
       THEN /\ secrets' = secrets
            /\ hreqs' = [hreqs EXCEPT ![p] = Answer(h, 500)]
       ELSE /\ secrets' = secrets \cup {row}
            /\ hreqs' = [hreqs EXCEPT ![p] = Answer(h, 201)]
    /\ UNCHANGED <<now, apprVars, authVars, auditLog, pairVars>>

\* DELETE /:id, lines 162-176: the lookup and the owner check.
DeleteRead(p, agent, id) ==
    LET secret == findSecret(id)
        r == [IdleHandler EXCEPT !.op = "delete", !.agent = agent, !.secretId = id,
                                 !.body = "ok", !.seen = secret]
    IN
    /\ Free(p)
    /\ hreqs' = [hreqs EXCEPT ![p] =
          IF secret = NoSecret THEN Answer(r, 404)
          ELSE IF ~OwnerMatches(secret, agent) THEN Answer(r, 403)
          ELSE [r EXCEPT !.pc = "delete"]]
    /\ UNCHANGED <<now, apprVars, authVars, secrets, auditLog, pairVars>>

\* DELETE /:id, lines 178-182: the delete.  It throws (500) when the row is
\* gone or when audit_log rows reference it (ON DELETE RESTRICT).
DeleteRun(p) ==
    LET h == hreqs[p] IN
    /\ h.op = "delete" /\ h.pc = "delete"
    /\ IF \/ findSecret(h.secretId) = NoSecret
          \/ \E k \in DOMAIN auditLog : auditLog[k].secretId = h.secretId
       THEN /\ secrets' = secrets
            /\ hreqs' = [hreqs EXCEPT ![p] = Answer(h, 500)]
       ELSE /\ secrets' = {s \in secrets : s.id # h.secretId}
            /\ hreqs' = [hreqs EXCEPT ![p] = Answer(h, 204)]
    /\ UNCHANGED <<now, apprVars, authVars, auditLog, pairVars>>

NextRetrieve ==
    \/ \E p \in Procs, a \in Agents, id \in SecretIds, b \in Bodies :
            RetrieveRead(p, a, id, b)
    \/ \E p \in Procs : RetrieveAudit(p)
    \/ \E p \in Procs, a \in Agents, id \in SecretIds, n \in Names, t \in RegTiers :
            RegisterCheck(p, a, id, n, t)
    \/ \E p \in Procs : RegisterCreate(p)
    \/ \E p \in Procs, a \in Agents, id \in SecretIds : DeleteRead(p, a, id)
    \/ \E p \in Procs : DeleteRun(p)

SpecRetrieve == Init /\ [][NextRetrieve]_vars

(***************************************************************************)
(* Claims about retrieval.                                                 *)
(***************************************************************************)
\* An approval record of secret id stands approved.
HasApproved(id) ==
    \E i \in Rows : approvals[i].secretId = id /\ approvals[i].status = "approved"

\* C5: a response carries key material only when the secret the retrieval
\* read is green and owned by the requesting agent, or is yellow or red and
\* has an approved approval record; no other route returns key material.
C5_TierGate ==
    \A p \in Procs :
        hreqs[p].keys =>
            /\ hreqs[p].op = "retrieve" /\ hreqs[p].status = 200
            /\ hreqs[p].seen.id = hreqs[p].secretId
            /\ hreqs[p].seen.tier \in Tiers
            /\ hreqs[p].seen.tier \in {"yellow", "red"} => HasApproved(hreqs[p].secretId)
            /\ hreqs[p].seen.tier = "green" => hreqs[p].seen.agentId = hreqs[p].agent

\* C5 witness: the owner's retrieval of a yellow or red secret without an
\* approved record has been refused and carries no key material.
C5_Witness ==
    \E p \in Procs :
        /\ hreqs[p].op = "retrieve" /\ hreqs[p].pc = "done"
        /\ hreqs[p].seen.tier \in {"yellow", "red"}
        /\ hreqs[p].seen.agentId = hreqs[p].agent
        /\ ~HasApproved(hreqs[p].secretId)
        /\ hreqs[p].status = 400 /\ ~hreqs[p].keys

\* Process p starts a retrieval in this step.
RetrieveArrives(p) ==
    /\ Free(p) /\ hreqs'[p] # hreqs[p] /\ hreqs'[p].op = "retrieve"

\* The secret the arriving retrieval of p names is absent or owned by
\* another agent.
NotOwned(p) ==
    \/ findSecret(hreqs'[p].secretId) = NoSecret
    \/ findSecret(hreqs'[p].secretId).agentId # hreqs'[p].agent

C15_EveryOutcomeAudited ==
    \A p \in Procs :
        hreqs[p].op = "retrieve" /\ hreqs[p].pc = "done"
        => \E k \in DOMAIN auditLog :
              /\ auditLog[k].agentId = hreqs[p].agent
              /\ auditLog[k].secretId = hreqs[p].secretId

C18_YellowCreatesApproval ==
    [][\A p \in Procs :
        /\ RetrieveArrives(p)
        /\ hreqs'[p].body = "ok"
        /\ findSecret(hreqs'[p].secretId).tier = "yellow"
        /\ findSecret(hreqs'[p].secretId).agentId = hreqs'[p].agent
        => /\ hreqs'[p].status = 202
           /\ Len(approvals') = Len(approvals) + 1
           /\ approvals'[Len(approvals')].status = "pending"
           /\ approvals'[Len(approvals')].secretId = hreqs'[p].secretId]_vars

\* A row of secret_metadata with the agent and name of p's register request.
NameTaken(p) == \E s \in secrets : s.agentId = hreqs[p].agent /\ s.name = hreqs[p].name

\* C22: a register request that completes while a record with its agent
\* and name exists is answered 409 and adds nothing, whether the record was
\* there when the request arrived or was created by a concurrent request;
\* at most one record per (agent, name) exists.
C22_DuplicateRegisterConflicts ==
    [][/\ \A p \in Procs :
            /\ hreqs[p].op = "register" /\ hreqs[p].pc = "create"
            /\ hreqs'[p].pc = "done"
            /\ NameTaken(p)
            => hreqs'[p].status = 409 /\ secrets' = secrets
       /\ \A s, t \in secrets' :
            s.agentId = t.agentId /\ s.name = t.name => s = t]_vars

(***************************************************************************)
(* The secrets routes with retrieve bodies of every form: agent a1         *)
(* registers, retrieves and deletes its secret, agents a1 and a2 retrieve. *)
(***************************************************************************)
NextDecode ==
    \/ \E p \in Procs, a \in {"a1", "a2"}, id \in SecretIds, b \in BodyForms :
            RetrieveRead(p, a, id, b)
    \/ \E p \in Procs : RetrieveAudit(p)
    \/ \E p \in Procs, id \in SecretIds, n \in Names, t \in {"green", "yellow"} :
            RegisterCheck(p, "a1", id, n, t)
    \/ \E p \in Procs : RegisterCreate(p)
    \/ \E p \in Procs, id \in SecretIds : DeleteRead(p, "a1", id)
    \/ \E p \in Procs : DeleteRun(p)

SpecDecode == Init /\ [][NextDecode]_vars

\* C23: a retrieval by the owner of a green secret whose body lacks a
\* field, or whose eph_x25519_pub or kek_salt is not base64url of 32 bytes,
\* is answered 400 at once, without key derivation; it is never answered
\* 500 and never returns key material.
C23_MalformedIsBadRequest ==
    [][\A p \in Procs :
        /\ RetrieveArrives(p)
        /\ hreqs'[p].body # "ok"
        /\ findSecret(hreqs'[p].secretId).agentId = hreqs'[p].agent
        /\ findSecret(hreqs'[p].secretId).tier = "green"
        => /\ hreqs'[p].pc = "done" /\ hreqs'[p].status = 400
           /\ ~hreqs'[p].keys /\ hreqs'[p].live = {}]_vars

\* C27: a retrieval that has ended, with a response or with an error, has
\* left no KEK, K_session or ECDH shared-secret buffer that was not
\* overwritten with zeros.
C27_BuffersZeroedAtExit ==
    \A p \in Procs :
        hreqs[p].op = "retrieve" /\ hreqs[p].pc = "done" => hreqs[p].live = {}

\* C24: a delete by the owning agent of an existing secret is answered 204
\* and the record is gone afterwards, also when retrievals of the secret
\* have written audit entries; a delete by another agent is answered 403
\* and changes nothing.
C24_OwnerDeleteSucceeds ==
    [][\A p \in Procs :
        /\ ( /\ hreqs[p].op = "delete" /\ hreqs[p].pc = "delete"
             /\ hreqs'[p].pc = "done"
             /\ findSecret(hreqs[p].secretId) # NoSecret
             /\ findSecret(hreqs[p].secretId).agentId = hreqs[p].agent )
            => /\ hreqs'[p].status = 204
               /\ \A s \in secrets' : s.id # hreqs[p].secretId
        /\ ( /\ Free(p) /\ hreqs'[p] # hreqs[p] /\ hreqs'[p].op = "delete"
             /\ findSecret(hreqs'[p].secretId) # NoSecret
             /\ findSecret(hreqs'[p].secretId).agentId # hreqs'[p].agent )
            => /\ hreqs'[p].pc = "done" /\ hreqs'[p].status = 403
               /\ secrets' = secrets]_vars

(***************************************************************************)
(* The agent pipeline end to end: authMiddleware, then the retrieve        *)
(* handler it protects (secrets.use('*', authMiddleware)).  Every request  *)
(* is agent a1's signed POST /api/secrets/sec-1/retrieve with a complete   *)
(* body; the secret is registered by its owner beforehand or meanwhile.    *)
(***************************************************************************)
\* await next(): the request that passed the gate enters the retrieve
\* handler as the agent the gate attached to it.
HandlerRetrieve(p) ==
    /\ reqs[p].pc = "handler"
    /\ hreqs[p].op # "retrieve"
    /\ \E id \in SecretIds : RetrieveRead(p, reqs[p].ident, id, "ok")

NextPipe ==
    \/ AuthTick
    \/ AuthTickMs
    \/ \E p \in Procs, ts \in TimeStamps : AgentAuthenticate(p, "a1", ts, "a1")
    \/ \E p \in Procs : NonceCheck(p)
    \/ \E p \in Procs : AgentNonceInsert(p)
    \/ OtherPhoneTraffic(CLEANUP_INTERVAL)
    \/ cleanExpired
    \/ \E p \in Procs, id \in SecretIds, n \in Names :
            RegisterCheck(p, "a1", id, n, "green")
    \/ \E p \in Procs : RegisterCreate(p)
    \/ \E p \in Procs : HandlerRetrieve(p)
    \/ \E p \in Procs : RetrieveAudit(p)

SpecPipe == Init /\ [][NextPipe]_vars

\* C17: when two requests carry the same signature and one of them has been
\* granted (200 with key material), the other, once it has left the nonce
\* steps of the gate, has been answered 409 without key material, and
\* exactly one auto_granted audit entry exists for the request.
C17_ReplayGets409 ==
    \A p, q \in Procs :
        ( /\ p # q
          /\ reqs[p].sig # Null /\ reqs[q].sig = reqs[p].sig
          /\ hreqs[p].op = "retrieve" /\ hreqs[p].keys
          /\ reqs[q].pc \in {"handler", "done"}
          /\ reqs[q].status # 401 )
        => /\ reqs[q].pc = "done" /\ reqs[q].status = 409
           /\ ~hreqs[q].keys
           /\ Cardinality({k \in DOMAIN auditLog : auditLog[k] = AuditEntry(hreqs[p])}) = 1

(***************************************************************************)
(* Pairing: routes/pair.ts.  The routes are not behind the auth            *)
(* middleware; a token is the index of its invitation row.                 *)
(***************************************************************************)
INVITE_EXPIRY_MS == 600000

MaxInvites == 1         \* pairing_invitations rows ever created
MaxDevices == 2         \* agents and phones ever registered
MaxPairTicks == 1       \* the pairing clock passes MaxPairTicks expiry periods

DeviceKinds == {"agent", "phone"}

\* Tokens a client can present: those of the invitations, and one that
\* belongs to no invitation.
Tokens == 0..MaxInvites

\* The pairing clock advances to just past an invitation's lifetime.
PairTick ==
    /\ now < MaxPairTicks * (INVITE_EXPIRY_MS + 1)
    /\ now' = now + INVITE_EXPIRY_MS + 1
    /\ UNCHANGED <<apprVars, authVars, retrVars, pairVars>>

\* POST /invite, lines 50-89: a new invitation with a fresh random token.
PairInvite(tenantId, type) ==
    /\ Len(invitations) < MaxInvites
    /\ invitations' = Append(invitations,
            [token |-> Len(invitations) + 1, tenantId |-> tenantId, type |-> type,
             expiresAt |-> now + INVITE_EXPIRY_MS, used |-> FALSE])
    /\ UNCHANGED <<now, apprVars, authVars, retrVars, devices, preqs>>

\* prisma.pairingInvitation.findUnique({ where: { token } }): the row or null.
NoInvitation ==
    [token |-> 0, tenantId |-> "", type |-> "", expiresAt |-> 0, used |-> FALSE]
findInvitation(token) ==
    IF token \in DOMAIN invitations THEN invitations[token] ELSE NoInvitation

PairAnswer(r, status, error) == [r EXCEPT !.pc = "done", !.status = status, !.error = error]

\* POST /agent lines 100-127 and POST /phone lines 164-191: the body check,
\* the invitation lookup, the used and expiry tests.  The type of the
\* invitation is not compared with the route.
PairRead(p, kind, token, body) ==
    LET inv == findInvitation(token)
        r == [IdlePair EXCEPT !.kind = kind, !.token = token, !.body = body]
    IN
    /\ preqs[p].pc \in {"idle", "done"}
    /\ preqs' = [preqs EXCEPT ![p] =
          IF body = "missing" THEN PairAnswer(r, 400, "fields required")
          ELSE IF inv = NoInvitation THEN PairAnswer(r, 404, "invalid token")
          ELSE IF inv.used THEN PairAnswer(r, 400, "token already used")
          ELSE IF inv.expiresAt < now THEN PairAnswer(r, 400, "token expired")
          ELSE [r EXCEPT !.pc = "create", !.tenant = inv.tenantId]]
    /\ UNCHANGED <<now, apprVars, authVars, retrVars, invitations, devices>>

\* lines 132-140 / 196-204: prisma.agent.create or prisma.phone.create.
\* The token field records which invitation the device was paired with;
\* the tables do not store it.
PairCreate(p) ==
    /\ preqs[p].pc = "create"
    /\ Len(devices) < MaxDevices
    /\ devices' = Append(devices,
            [kind |-> preqs[p].kind, tenantId |-> preqs[p].tenant,
             token |-> preqs[p].token])
    /\ preqs' = [preqs EXCEPT ![p].pc = "invalidate"]
    /\ UNCHANGED <<now, apprVars, authVars, retrVars, invitations>>

\* lines 143-158 / 207-222: mark the invitation used, then the response.
PairInvalidate(p) ==
    /\ preqs[p].pc = "invalidate"
    /\ invitations' = [invitations EXCEPT ![preqs[p].token].used = TRUE]
    /\ preqs' = [preqs EXCEPT ![p] = PairAnswer(preqs[p], 200, "")]
    /\ UNCHANGED <<now, apprVars, authVars, retrVars, devices>>

NextPair ==
    \/ PairTick
    \/ \E t \in Tenants, k \in DeviceKinds : PairInvite(t, k)
    \/ \E p \in Procs, k \in DeviceKinds, tok \in Tokens, b \in Bodies :
            PairRead(p, k, tok, b)
    \/ \E p \in Procs : PairCreate(p)
    \/ \E p \in Procs : PairInvalidate(p)

SpecPair == Init /\ [][NextPair]_vars

\* The devices registered with token tok.
PairedWith(tok) == {k \in DOMAIN devices : devices[k].token = tok}

\* C25: for every invitation token at most one device, agent or phone, is
\* ever registered, and a complete pairing request that arrives when a
\* device has been registered with its token is refused as already used.
C25_TokenSingleUse ==
    [][/\ \A tok \in DOMAIN invitations' :
            \A j, k \in DOMAIN devices' :
                devices'[j].token = tok /\ devices'[k].token = tok => j = k
       /\ \A p \in Procs :
            /\ preqs[p].pc \in {"idle", "done"} /\ preqs'[p] # preqs[p]
            /\ preqs'[p].body = "ok"
            /\ PairedWith(preqs'[p].token) # {}
            => /\ preqs'[p].pc = "done" /\ preqs'[p].status = 400
               /\ preqs'[p].error = "token already used"]_vars

(***************************************************************************)
(* Approvals for registered secrets: the register route and               *)
(* createApproval, which share the tables but no code path.               *)
(***************************************************************************)
NextTenancy ==
    \/ \E p \in Procs, a \in Agents, id \in SecretIds, n \in Names :
            RegisterCheck(p, a, id, n, "yellow")
    \/ \E p \in Procs : RegisterCreate(p)
    \/ \E s \in SecretIds, ph \in Phones, r \in Reasons, tm \in Timeouts :
            createApproval(s, ph, r, tm)

SpecTenancy == Init /\ [][NextTenancy]_vars

\* C26: for every approval record whose secret is registered, the phone the
\* record is addressed to belongs to the tenant of that secret.
C26_PhoneAndSecretShareTenant ==
    \A i \in Rows :
        findSecret(approvals[i].secretId) # NoSecret
        => PhoneTenant(approvals[i].phoneId) = findSecret(approvals[i].secretId).tenantId
====
